---- MODULE Spec2Model ----
(***************************************************************************)
(* pytestflow: WebDriverFactory (webdriver_factory.py), Config             *)
(* (test_config_data_loader.py) and the assertion helpers (assertion.py).  *)
(*                                                                         *)
(* Three specifications share the module:                                  *)
(*   Spec        one WebDriverFactory: its constructor step by step, then  *)
(*               get_webdriver / quit_webdriver / __exit__ / a with block. *)
(*   SpecConfig  Config.get_config_data applied to a loaded document.      *)
(*   SpecAssert  a sequence of test steps calling soft_assert/hard_assert. *)
(***************************************************************************)
EXTENDS Naturals, Sequences, FiniteSets, TLC

VARIABLES
    \* ---- WebDriverFactory: constructor arguments and the host ----
    browser,            \* self.__browser
    remote,             \* self.__remote
    grid_url,           \* self.__grid_url
    test_config_path,   \* __init__'s test_config_path
    platform_system,    \* platform.system()
    config_file,        \* what open()/json.load() find at test_config_path
    \* ---- WebDriverFactory: fields and position ----
    pc,                 \* position of __init__
    config_data,        \* self.__config_data
    options,            \* the object __get_options returned
    service,            \* self.__service
    driver,             \* self.__driver (0 is None, a handle is >= 1)
    \* ---- the automation library, as seen through the factory ----
    session,            \* state of the session behind the handle
    remote_calls,       \* calls of webdriver.Remote(...)
    local_calls,        \* calls of webdriver.Chrome/Edge/Firefox/Safari(...)
    local_ctor,         \* which local constructor was called
    quit_calls,         \* calls of driver.quit()
    stale_quits,        \* calls of driver.quit() on a terminated session
    \* ---- what the caller observes ----
    raised,             \* the exception that reached the caller (last operation)
    steps,              \* the construction steps run so far, in order
    created,            \* the handle the constructor stored
    returned,           \* the values get_webdriver() has returned
    quit_requests,      \* calls of quit_webdriver()
    scope,              \* the with statement over the factory
    exit_quits,         \* driver.quit() calls made from __exit__
    calls,              \* operations run after construction
    \* ---- Config.get_config_data on its own ----
    cfg_doc, cfg_browser, cfg_device, cfg_result,
    \* ---- a sequence of test steps using assertion.py ----
    test_steps, ip, executed, failures, aborted

fvars == <<browser, remote, grid_url, test_config_path, platform_system, config_file,
           pc, config_data, options, service, driver, session, remote_calls,
           local_calls, local_ctor, quit_calls, stale_quits, raised, steps, created,
           returned, quit_requests, scope, exit_quits, calls>>
cvars == <<cfg_doc, cfg_browser, cfg_device, cfg_result>>
avars == <<test_steps, ip, executed, failures, aborted>>
vars == <<fvars, cvars, avars>>

----------------------------------------------------------------------------
(* Bounds of the model *)

\* operations (get_webdriver, quit_webdriver, __exit__, with) after construction
MaxCalls == 3
\* length of a sequence of test steps
MaxSteps == 3

----------------------------------------------------------------------------
(* Python values *)

\* None where a str is expected (browser, grid_url, test_config_path, device)
None == "<None>"
\* None where a dict or an object is expected
PyNone == [kind |-> "None"]
PyDict(m) == [kind |-> "dict", val |-> m]
EmptyMap == [k \in {} |-> k]
\* truth value of a str | None
Truthy(s) == s # None /\ s # ""
\* dict.get(key, default)
Get(m, key, default) == IF key \in DOMAIN m THEN m[key] ELSE default

Return(v) == [kind |-> "return", val |-> v]
Raise(type, what, msg) == [kind |-> "raise", type |-> type, what |-> what, msg |-> msg]
NoError == [kind |-> "none"]

\* ','.join(seq)
RECURSIVE Join(_)
Join(seq) ==
    IF Len(seq) = 0 THEN ""
    ELSE IF Len(seq) = 1 THEN seq[1]
    ELSE seq[1] \o "," \o Join(Tail(seq))

\* str(x) inside an f-string
Str(s) == IF s = None THEN "None" ELSE s

----------------------------------------------------------------------------
(* Configuration documents (test_environment.json) *)

NoSection == EmptyMap
ArgsOnly == [args |-> <<"--headless", "--no-sandbox">>]
CapsOnly == [pageLoadStrategy |-> "eager"]
ArgsAndCaps == [args |-> <<"--headless", "--no-sandbox">>, pageLoadStrategy |-> "eager"]
TwoCaps == [acceptInsecureCerts |-> "true", pageLoadStrategy |-> "none"]
DeviceSection == [deviceName |-> "Pixel 7"]

Documents ==
    { [browsers |-> [chrome |-> ArgsAndCaps, safari |-> CapsOnly],
       devices |-> [pixel |-> DeviceSection]],
      [browsers |-> [chrome |-> ArgsOnly, firefox |-> TwoCaps, edge |-> NoSection],
       devices |-> [chrome |-> DeviceSection]],
      [browsers |-> [firefox |-> ArgsAndCaps],
       devices |-> EmptyMap],
      [browsers |-> EmptyMap,
       devices |-> [pixel |-> DeviceSection]] }

\* JSON objects json.load accepts that lack the "browsers" key
DocumentsWithoutBrowsers ==
    { [devices |-> [pixel |-> DeviceSection]], EmptyMap }

Files ==
    {[kind |-> "missing"], [kind |-> "unparseable"]}
    \cup {[kind |-> "json", val |-> d] : d \in Documents \cup DocumentsWithoutBrowsers}

----------------------------------------------------------------------------
(* Config (test_config_data_loader.py) *)

\* Config.__load_test_config_data: open + json.load, both failures wrapped
load_test_config_data(path, file) ==
    IF file.kind = "missing"
    THEN Raise("PyTestFlowException", "config_not_found",
               "Test config data file path not found. Please verify the correct path location."
               \o "Path provided is: " \o path)
    ELSE IF file.kind = "unparseable"
    THEN Raise("PyTestFlowException", "config_open_error",
               "Error in opening test config data file. Original Error: JSONDecodeError")
    ELSE Return(file.val)

\* mutant: the device selector is tested before the browser selector
get_config_data_device_first(doc, b, d) ==
    IF Truthy(d)
    THEN IF "devices" \in DOMAIN doc
         THEN Return(PyDict(Get(doc.devices, d, EmptyMap)))
         ELSE Raise("AttributeError", "no_devices_key",
                    "'NoneType' object has no attribute 'get'")
    ELSE IF Truthy(b)
    THEN IF "browsers" \in DOMAIN doc
         THEN Return(PyDict(Get(doc.browsers, b, EmptyMap)))
         ELSE Raise("AttributeError", "no_browsers_key",
                    "'NoneType' object has no attribute 'get'")
    ELSE Return(PyNone)

\* Config.get_config_data(browser, device) over the loaded document doc
get_config_data(doc, b, d) ==
    IF Truthy(b)
    THEN IF "browsers" \in DOMAIN doc
         THEN Return(PyDict(Get(doc.browsers, b, EmptyMap)))
         ELSE Raise("AttributeError", "no_browsers_key",
                    "'NoneType' object has no attribute 'get'")
    ELSE IF Truthy(d)
    THEN IF "devices" \in DOMAIN doc
         THEN Return(PyDict(Get(doc.devices, d, EmptyMap)))
         ELSE Raise("AttributeError", "no_devices_key",
                    "'NoneType' object has no attribute 'get'")
    ELSE Return(PyNone)

\* Config(test_config_path=path).get_config_data(browser=b)
ConfigLookup(path, file, b) ==
    LET loaded == load_test_config_data(path, file)
    IN  IF loaded.kind = "raise" THEN loaded
        ELSE get_config_data(loaded.val, b, None)

----------------------------------------------------------------------------
(* WebDriverFactory (webdriver_factory.py) *)

SUPPORTED_BROWSERS == <<"chrome", "edge", "firefox", "safari">>

Range(seq) == {seq[i] : i \in DOMAIN seq}

Browsers == Range(SUPPORTED_BROWSERS) \cup {"opera", "", None}
GridUrls == {None, "", "http://grid:4444/wd/hub"}
ConfigPaths == {None, "test_environment.json"}
Platforms == {"Windows", "Linux", "Darwin"}

\* mutant: the platform rule tests the wrong host name
check_platform_compatibility_wrong_host(system, b) ==
    IF system = "Darwin" /\ b = "safari"
    THEN Raise("PyTestFlowException", "unsupported_platform",
               Str(b) \o " is not supported on Windows.")
    ELSE NoError

\* __check_platform_compatibility
check_platform_compatibility(system, b) ==
    IF system = "Windows" /\ b = "safari"
    THEN Raise("PyTestFlowException", "unsupported_platform",
               Str(b) \o " is not supported on Windows.")
    ELSE NoError

\* mutant: the membership test misses None and the empty name
check_browser_availability_truthy_only(b) ==
    IF Truthy(b) /\ b \notin Range(SUPPORTED_BROWSERS)
    THEN Raise("PyTestFlowException", "unsupported_browser",
               "Unsupported Browser: " \o Str(b) \o ". "
               \o "Supported browsers are " \o Join(SUPPORTED_BROWSERS))
    ELSE NoError

\* __check_browser_availability
check_browser_availability(b) ==
    IF b \notin Range(SUPPORTED_BROWSERS)
    THEN Raise("PyTestFlowException", "unsupported_browser",
               "Unsupported Browser: " \o Str(b) \o ". "
               \o "Supported browsers are " \o Join(SUPPORTED_BROWSERS))
    ELSE NoError

\* mutant: the grid URL is not consulted
UseRemote_flag_only(r, url) == r

\* the condition of __set_webdriver
UseRemote(r, url) == r /\ Truthy(url)

\* the capabilities __get_options sets by name: one per item of the configuration
CapabilityItems(cfg) == cfg

\* __get_options: add_argument for each of args, set_capability for each item
get_options(cfg, b) ==
    LET args == Get(cfg, "args", << >>)
    IN  [class |-> b, arguments |-> args, capabilities |-> CapabilityItems(cfg)]

Failed(e) ==
    /\ pc' = "failed"
    /\ raised' = e

\* __init__, lines 48-49
LoadConfig ==
    /\ pc = "init"
    /\ steps' = Append(steps, "load_config")
    /\ IF Truthy(test_config_path)
       THEN LET r == ConfigLookup(test_config_path, config_file, browser)
            IN  IF r.kind = "raise"
                THEN Failed(r) /\ UNCHANGED config_data
                ELSE /\ config_data' = r.val
                     /\ pc' = "config_resolved"
                     /\ UNCHANGED raised
       ELSE /\ pc' = "config_resolved"
            /\ UNCHANGED <<config_data, raised>>
    /\ UNCHANGED <<browser, remote, grid_url, test_config_path, platform_system,
                   config_file, options, service, driver, session, remote_calls,
                   local_calls, local_ctor, quit_calls, stale_quits, created,
                   returned, quit_requests, scope, exit_quits, calls>>

\* __init__, line 50
CheckPlatform ==
    /\ pc = "config_resolved"
    /\ steps' = Append(steps, "platform_check")
    /\ LET r == check_platform_compatibility(platform_system, browser)
       IN  IF r.kind = "raise"
           THEN Failed(r)
           ELSE pc' = "platform_checked" /\ UNCHANGED raised
    /\ UNCHANGED <<browser, remote, grid_url, test_config_path, platform_system,
                   config_file, config_data, options, service, driver, session,
                   remote_calls, local_calls, local_ctor, quit_calls, stale_quits,
                   created, returned, quit_requests, scope, exit_quits, calls>>

\* __init__, line 51
CheckBrowser ==
    /\ pc = "platform_checked"
    /\ steps' = Append(steps, "browser_check")
    /\ LET r == check_browser_availability(browser)
       IN  IF r.kind = "raise"
           THEN Failed(r)
           ELSE pc' = "browser_checked" /\ UNCHANGED raised
    /\ UNCHANGED <<browser, remote, grid_url, test_config_path, platform_system,
                   config_file, config_data, options, service, driver, session,
                   remote_calls, local_calls, local_ctor, quit_calls, stale_quits,
                   created, returned, quit_requests, scope, exit_quits, calls>>

\* __create_remote_driver / __create_local_driver, first line: __get_options
GetOptions ==
    /\ pc = "browser_checked"
    /\ steps' = Append(steps, "options_resolution")
    /\ options' = get_options(config_data.val, browser)
    /\ pc' = "options_resolved"
    /\ UNCHANGED <<browser, remote, grid_url, test_config_path, platform_system,
                   config_file, config_data, service, driver, session, remote_calls,
                   local_calls, local_ctor, quit_calls, stale_quits, raised, created,
                   returned, quit_requests, scope, exit_quits, calls>>

\* the service class __init_service instantiates for a browser
ServiceFor(b) ==
    CASE b = "chrome" -> "ChromeService"
      [] b = "firefox" -> "FirefoxService"
      [] b = "edge" -> "EdgeService"
      [] b = "safari" -> "SafariService"
      [] OTHER -> None

\* mutant: the except clause records the error and lets construction go on
InitService_swallowing ==
    /\ pc = "options_resolved"
    /\ steps' = Append(steps, "service_resolution")
    /\ \E outcome \in {"ok", "Exception"} :
          IF outcome = "ok"
          THEN /\ service' = ServiceFor(browser)
               /\ UNCHANGED raised
          ELSE /\ raised' = Raise("PyTestFlowException", "service_init",
                                  "An Error encountered while initializing service for "
                                  \o Str(browser) \o " browser.")
               /\ UNCHANGED service
    /\ pc' = "service_resolved"
    /\ UNCHANGED <<browser, remote, grid_url, test_config_path, platform_system,
                   config_file, config_data, options, driver, session, remote_calls,
                   local_calls, local_ctor, quit_calls, stale_quits, created,
                   returned, quit_requests, scope, exit_quits, calls>>

\* __init_service: the driver manager's install() and the Service constructor
\* succeed or raise; whatever they raise is wrapped
InitService ==
    /\ pc = "options_resolved"
    /\ steps' = Append(steps, "service_resolution")
    /\ \E outcome \in {"ok", "Exception"} :
          IF outcome = "ok"
          THEN /\ service' = ServiceFor(browser)
               /\ pc' = "service_resolved"
               /\ UNCHANGED raised
          ELSE /\ Failed(Raise("PyTestFlowException", "service_init",
                               "An Error encountered while initializing service for "
                               \o Str(browser) \o " browser."))
               /\ UNCHANGED service
    /\ UNCHANGED <<browser, remote, grid_url, test_config_path, platform_system,
                   config_file, config_data, options, driver, session, remote_calls,
                   local_calls, local_ctor, quit_calls, stale_quits, created,
                   returned, quit_requests, scope, exit_quits, calls>>

\* the handle the next session constructor returns
NewHandle == remote_calls + local_calls + 1

\* what reaches the caller when webdriver.Remote(...) raises e
RemoteFailure(e, b) ==
    IF e = "WebDriverException"
    THEN Raise("PyTestFlowException", "remote_driver",
               "WebDriverException Encountered while creating remote webdriver for " \o Str(b))
    ELSE Raise("PyTestFlowException", "remote_driver",
               "An Exception is encountered while creating remote webdriver for " \o Str(b))

\* __set_webdriver with __create_remote_driver, from webdriver.Remote(...) on
CreateRemoteDriver ==
    /\ pc = "service_resolved"
    /\ UseRemote(remote, grid_url)
    /\ steps' = Append(steps, "driver_creation")
    /\ remote_calls' = remote_calls + 1
    /\ \E outcome \in {"ok", "WebDriverException", "Exception"} :
          IF outcome = "ok"
          THEN /\ driver' = NewHandle
               /\ created' = NewHandle
               /\ session' = "live"
               /\ pc' = "constructed"
               /\ UNCHANGED raised
          ELSE /\ Failed(RemoteFailure(outcome, browser))
               /\ UNCHANGED <<driver, created, session>>
    /\ UNCHANGED <<browser, remote, grid_url, test_config_path, platform_system,
                   config_file, config_data, options, service, local_calls, local_ctor,
                   quit_calls, stale_quits, returned, quit_requests, scope,
                   exit_quits, calls>>

\* the constructor the if/elif chain of __create_local_driver calls for a browser
LocalCtorFor(b) ==
    CASE b = "chrome" -> "Chrome"
      [] b = "edge" -> "Edge"
      [] b = "firefox" -> "Firefox"
      [] b = "safari" -> "Safari"
      [] OTHER -> None

\* what reaches the caller when webdriver.Chrome/Edge/Firefox/Safari(...) raises e:
\* __create_local_driver has no try block
LocalFailure(e, b) ==
    Raise(e, "local_driver", "Message: unable to start " \o Str(b))

\* __set_webdriver with __create_local_driver, from the if/elif chain on
CreateLocalDriver ==
    /\ pc = "service_resolved"
    /\ ~UseRemote(remote, grid_url)
    /\ steps' = Append(steps, "driver_creation")
    /\ IF LocalCtorFor(browser) = None
       THEN \* no branch taken: self.__driver stays None and is returned
            /\ pc' = "constructed"
            /\ UNCHANGED <<driver, created, session, local_calls, local_ctor, raised>>
       ELSE /\ local_calls' = local_calls + 1
            /\ local_ctor' = LocalCtorFor(browser)
            /\ \E outcome \in {"ok", "WebDriverException"} :
                  IF outcome = "ok"
                  THEN /\ driver' = NewHandle
                       /\ created' = NewHandle
                       /\ session' = "live"
                       /\ pc' = "constructed"
                       /\ UNCHANGED raised
                  ELSE /\ Failed(LocalFailure(outcome, browser))
                       /\ UNCHANGED <<driver, created, session>>
    /\ UNCHANGED <<browser, remote, grid_url, test_config_path, platform_system,
                   config_file, config_data, options, service, remote_calls,
                   quit_calls, stale_quits, returned, quit_requests, scope,
                   exit_quits, calls>>

\* get_webdriver
GetWebdriver ==
    /\ pc = "constructed"
    /\ calls < MaxCalls
    /\ calls' = calls + 1
    /\ returned' = returned \cup {driver}
    /\ raised' = NoError
    /\ UNCHANGED <<browser, remote, grid_url, test_config_path, platform_system,
                   config_file, pc, config_data, options, service, driver, session,
                   remote_calls, local_calls, local_ctor, quit_calls, stale_quits,
                   steps, created, quit_requests, scope, exit_quits>>

\* mutant: quit_webdriver resets the field to None
DriverAfterQuit_cleared(d) == 0

\* self.__driver after quit_webdriver ran
DriverAfterQuit(d) == d

\* quit_webdriver: self.__driver.quit() succeeds or raises; what it raises is wrapped
quit_webdriver(outcome) ==
    /\ quit_requests' = quit_requests + 1
    /\ IF driver = 0
       THEN \* None.quit(): AttributeError, caught by the except clause
            /\ raised' = Raise("PyTestFlowException", "quit",
                               "Error in closing WebDriver. Original Error: "
                               \o "'NoneType' object has no attribute 'quit'")
            /\ UNCHANGED <<quit_calls, stale_quits, session>>
       ELSE /\ quit_calls' = quit_calls + 1
            /\ stale_quits' = IF session = "terminated" THEN stale_quits + 1
                              ELSE stale_quits
            /\ IF outcome = "ok"
               THEN session' = "terminated" /\ raised' = NoError
               ELSE /\ raised' = Raise("PyTestFlowException", "quit",
                                       "Error in closing WebDriver. Original Error: "
                                       \o outcome)
                    /\ UNCHANGED session
    /\ driver' = DriverAfterQuit(driver)

QuitWebdriver ==
    /\ pc = "constructed"
    /\ calls < MaxCalls
    /\ calls' = calls + 1
    /\ \E outcome \in {"ok", "WebDriverException"} : quit_webdriver(outcome)
    /\ UNCHANGED <<browser, remote, grid_url, test_config_path, platform_system,
                   config_file, pc, config_data, options, service, remote_calls,
                   local_calls, local_ctor, steps, created, returned, scope,
                   exit_quits>>

\* __exit__(exc_type, exc_val, exc_tb), called directly on the factory
Exit ==
    /\ pc = "constructed"
    /\ calls < MaxCalls
    /\ calls' = calls + 1
    /\ IF driver # 0
       THEN /\ \E outcome \in {"ok", "WebDriverException"} : quit_webdriver(outcome)
            /\ exit_quits' = exit_quits + 1
       ELSE /\ raised' = NoError
            /\ UNCHANGED <<driver, session, quit_calls, stale_quits, quit_requests,
                           exit_quits>>
    /\ UNCHANGED <<browser, remote, grid_url, test_config_path, platform_system,
                   config_file, pc, config_data, options, service, remote_calls,
                   local_calls, local_ctor, steps, created, returned, scope>>

\* the methods class WebDriverFactory defines
ClassMethods ==
    {"__init__", "__check_platform_compatibility", "__check_browser_availability",
     "__set_webdriver", "__init_service", "__get_options", "__create_remote_driver",
     "__create_local_driver", "get_webdriver", "quit_webdriver", "__exit__"}

\* what a with statement looks up on the type of its context expression
ContextManagerProtocol == {"__enter__", "__exit__"}

\* `with factory: ...` over a constructed factory: the class defines no
\* __enter__, so the statement raises before its body runs and __exit__ is never
\* called (TypeError from Python 3.11, AttributeError before)
WithStatement ==
    /\ pc = "constructed"
    /\ scope = "none"
    /\ calls < MaxCalls
    /\ calls' = calls + 1
    /\ ~(ContextManagerProtocol \subseteq ClassMethods)
    /\ \E type \in {"TypeError", "AttributeError"} :
          raised' = Raise(type, "with", "__enter__")
    /\ scope' = "left"
    /\ UNCHANGED <<browser, remote, grid_url, test_config_path, platform_system,
                   config_file, pc, config_data, options, service, driver, session,
                   remote_calls, local_calls, local_ctor, quit_calls, stale_quits,
                   steps, created, returned, quit_requests, exit_quits>>

FactoryInit ==
    /\ browser \in Browsers
    /\ remote \in BOOLEAN
    /\ grid_url \in GridUrls
    /\ test_config_path \in ConfigPaths
    /\ platform_system \in Platforms
    /\ config_file \in Files
    /\ pc = "init"
    /\ config_data = PyDict(EmptyMap)
    /\ options = PyNone
    /\ service = None
    /\ driver = 0
    /\ session = "none"
    /\ remote_calls = 0
    /\ local_calls = 0
    /\ local_ctor = None
    /\ quit_calls = 0
    /\ stale_quits = 0
    /\ raised = NoError
    /\ steps = << >>
    /\ created = 0
    /\ returned = {}
    /\ quit_requests = 0
    /\ scope = "none"
    /\ exit_quits = 0
    /\ calls = 0

FactoryIdle ==
    /\ browser = None
    /\ remote = FALSE
    /\ grid_url = None
    /\ test_config_path = None
    /\ platform_system = "Linux"
    /\ config_file = [kind |-> "missing"]
    /\ pc = "unused"
    /\ config_data = PyDict(EmptyMap)
    /\ options = PyNone
    /\ service = None
    /\ driver = 0
    /\ session = "none"
    /\ remote_calls = 0
    /\ local_calls = 0
    /\ local_ctor = None
    /\ quit_calls = 0
    /\ stale_quits = 0
    /\ raised = NoError
    /\ steps = << >>
    /\ created = 0
    /\ returned = {}
    /\ quit_requests = 0
    /\ scope = "none"
    /\ exit_quits = 0
    /\ calls = 0

----------------------------------------------------------------------------
(* Config.get_config_data called on its own *)

Pending == [kind |-> "pending"]

DeviceNames == {None, "", "pixel", "chrome", "tablet"}

ConfigInit ==
    /\ cfg_doc \in Documents \cup DocumentsWithoutBrowsers
    /\ cfg_browser \in Browsers
    /\ cfg_device \in DeviceNames
    /\ cfg_result = Pending

ConfigIdle ==
    /\ cfg_doc = EmptyMap
    /\ cfg_browser = None
    /\ cfg_device = None
    /\ cfg_result = Pending

\* config.get_config_data(browser=cfg_browser, device=cfg_device)
CallGetConfigData ==
    /\ cfg_result = Pending
    /\ cfg_result' = get_config_data(cfg_doc, cfg_browser, cfg_device)
    /\ UNCHANGED <<cfg_doc, cfg_browser, cfg_device>>

----------------------------------------------------------------------------
(* assertion.py: a sequence of test steps *)

Messages == {"X failed", "Y failed"}

StepCalls == [fn : {"soft_assert", "hard_assert"}, condition : BOOLEAN, msg : Messages]

TestSequences == UNION {[1..n -> StepCalls] : n \in 1..MaxSteps}

\* soft_assert: check.is_true(condition, msg) records msg when the condition is
\* false and returns; recorded is the list of failures pytest-check holds
soft_assert(condition, msg, recorded) ==
    IF condition THEN recorded ELSE Append(recorded, msg)

\* mutant: the assert statement is compiled away
hard_assert_stripped(condition, msg) == NoError

\* hard_assert: assert condition, msg
hard_assert(condition, msg) ==
    IF condition THEN NoError ELSE Raise("AssertionError", "hard_assert", msg)

AssertInit ==
    /\ test_steps \in TestSequences
    /\ ip = 1
    /\ executed = << >>
    /\ failures = << >>
    /\ aborted = NoError

AssertIdle ==
    /\ test_steps = << >>
    /\ ip = 1
    /\ executed = << >>
    /\ failures = << >>
    /\ aborted = NoError

\* the step at ip calls soft_assert
SoftAssertStep ==
    /\ aborted.kind = "none"
    /\ ip \in DOMAIN test_steps
    /\ test_steps[ip].fn = "soft_assert"
    /\ executed' = Append(executed, ip)
    /\ failures' = soft_assert(test_steps[ip].condition, test_steps[ip].msg, failures)
    /\ ip' = ip + 1
    /\ UNCHANGED <<test_steps, aborted>>

\* the step at ip calls hard_assert; an exception ends the sequence
HardAssertStep ==
    /\ aborted.kind = "none"
    /\ ip \in DOMAIN test_steps
    /\ test_steps[ip].fn = "hard_assert"
    /\ executed' = Append(executed, ip)
    /\ LET r == hard_assert(test_steps[ip].condition, test_steps[ip].msg)
       IN  IF r.kind = "raise"
           THEN aborted' = r /\ UNCHANGED ip
           ELSE ip' = ip + 1 /\ UNCHANGED aborted
    /\ UNCHANGED <<test_steps, failures>>

----------------------------------------------------------------------------
(* Specifications *)

Init == FactoryInit /\ ConfigIdle /\ AssertIdle

Next ==
    \/ LoadConfig /\ UNCHANGED <<cvars, avars>>
    \/ CheckPlatform /\ UNCHANGED <<cvars, avars>>
    \/ CheckBrowser /\ UNCHANGED <<cvars, avars>>
    \/ GetOptions /\ UNCHANGED <<cvars, avars>>
    \/ InitService /\ UNCHANGED <<cvars, avars>>
    \/ CreateRemoteDriver /\ UNCHANGED <<cvars, avars>>
    \/ CreateLocalDriver /\ UNCHANGED <<cvars, avars>>
    \/ GetWebdriver /\ UNCHANGED <<cvars, avars>>
    \/ QuitWebdriver /\ UNCHANGED <<cvars, avars>>
    \/ Exit /\ UNCHANGED <<cvars, avars>>
    \/ WithStatement /\ UNCHANGED <<cvars, avars>>

Spec == Init /\ [][Next]_vars

InitConfig == FactoryIdle /\ ConfigInit /\ AssertIdle

NextConfig == CallGetConfigData /\ UNCHANGED <<fvars, avars>>

SpecConfig == InitConfig /\ [][NextConfig]_vars

InitAssert == FactoryIdle /\ ConfigIdle /\ AssertInit

NextAssert ==
    \/ SoftAssertStep /\ UNCHANGED <<fvars, cvars>>
    \/ HardAssertStep /\ UNCHANGED <<fvars, cvars>>

SpecAssert == InitAssert /\ [][NextAssert]_vars

----------------------------------------------------------------------------
(* Properties *)

Last(seq) == seq[Len(seq)]

IsPrefix(s, t) == Len(s) <= Len(t) /\ s = SubSeq(t, 1, Len(s))

\* the configuration lookup of __init__ runs to its end for browser name b:
\* no path was given, or the file holds a JSON object and, when b selects a
\* browser section, the object has a "browsers" mapping
ConfigStepCompletes(b) ==
    \/ ~Truthy(test_config_path)
    \/ /\ config_file.kind = "json"
       /\ Truthy(b) => "browsers" \in DOMAIN config_file.val

ConfigFailures == {"config_not_found", "config_open_error", "no_browsers_key"}

SafariOnWindows == browser = "safari" /\ platform_system = "Windows"

UnsupportedName == browser \notin {"chrome", "edge", "firefox", "safari"}

UnsupportedBrowserMessage ==
    "Unsupported Browser: " \o Str(browser)
    \o ". Supported browsers are chrome,edge,firefox,safari"

C3_ArgsNeverACapability ==
    options # PyNone =>
        /\ options.arguments = Get(config_data.val, "args", << >>)
        /\ DOMAIN options.capabilities = DOMAIN config_data.val \ {"args"}
        /\ \A k \in DOMAIN options.capabilities :
              options.capabilities[k] = config_data.val[k]

LocalConstructorOf ==
    [chrome |-> "Chrome", edge |-> "Edge", firefox |-> "Firefox", safari |-> "Safari"]

\* C5: a constructed factory made exactly one session handle: by the remote
\* constructor iff the remote flag is set and the grid URL is non-empty, by the
\* requested browser's local constructor otherwise; get_webdriver, quit_webdriver
\* and __exit__ make no second one.
C5_ExactlyOneHandle ==
    pc = "constructed" =>
        /\ remote_calls + local_calls = 1
        /\ created = 1
        /\ remote_calls = 1 <=> (remote /\ grid_url # None /\ grid_url # "")
        /\ local_calls = 1 => local_ctor = LocalConstructorOf[browser]

C5_Witness ==
    /\ pc = "constructed"
    /\ remote /\ grid_url = ""
    /\ local_calls = 1
    /\ quit_requests >= 1
    /\ calls >= 2

\* C6: a configuration load failure, a platform or browser rejection, a service
\* initialisation failure, a remote or local session-creation failure and a
\* session-termination failure each reach the caller as a PyTestFlowException.
C6_OnlyPyTestFlowException ==
    (raised.kind = "raise"
     /\ raised.what \in {"config_not_found", "config_open_error", "unsupported_platform",
                         "unsupported_browser", "service_init", "remote_driver",
                         "local_driver", "quit"}) =>
        raised.type = "PyTestFlowException"

\* C7: when the with statement over a factory has been left, the factory's
\* release step has invoked the driver's quit.
C7_ScopeExitQuits ==
    scope = "left" => exit_quits >= 1

HardFailure(i) ==
    test_steps[i].fn = "hard_assert" /\ ~test_steps[i].condition

SoftFailure(i) ==
    test_steps[i].fn = "soft_assert" /\ ~test_steps[i].condition

\* the messages of the failing soft assertions among steps 1..n, in order
RECURSIVE SoftFailureMessages(_)
SoftFailureMessages(n) ==
    IF n = 0 THEN << >>
    ELSE IF SoftFailure(n)
         THEN Append(SoftFailureMessages(n - 1), test_steps[n].msg)
         ELSE SoftFailureMessages(n - 1)

\* C8: a failing hard_assert ends the sequence with its message and no later step
\* runs; a failing soft_assert records its message and the next step still runs;
\* an assertion whose condition is true changes nothing.
C8_HardStopsSoftContinues ==
    LET n == Len(executed)
    IN  /\ executed = [i \in 1..n |-> i]
        /\ \A i \in 1..n : HardFailure(i) => i = n
        /\ IF n >= 1 /\ HardFailure(n)
           THEN /\ aborted.kind = "raise"
                /\ aborted.type = "AssertionError"
                /\ aborted.msg = test_steps[n].msg
                /\ ip = n
           ELSE /\ aborted = NoError
                /\ ip = n + 1
                /\ n < Len(test_steps) => ENABLED (SoftAssertStep \/ HardAssertStep)
        /\ failures = SoftFailureMessages(n)

C8_Witness ==
    /\ aborted.kind = "raise"
    /\ Len(failures) >= 1
    /\ Len(executed) < Len(test_steps)

ConstructionOrder ==
    <<"platform_check", "browser_check", "options_resolution", "service_resolution",
      "driver_creation">>

ConstructionSteps == SelectSeq(steps, LAMBDA x : x \in Range(ConstructionOrder))

FailingStep ==
    [config_not_found |-> "load_config", config_open_error |-> "load_config",
     no_browsers_key |-> "load_config", unsupported_platform |-> "platform_check",
     unsupported_browser |-> "browser_check", service_init |-> "service_resolution",
     remote_driver |-> "driver_creation", local_driver |-> "driver_creation"]

\* C9: the construction steps run once each, in the order platform check, browser
\* check, options resolution, service resolution, driver creation; the step that
\* fails is the last one run; a failed platform or browser check leaves no service
\* and no session.
C9_ForwardOnlyConstruction ==
    /\ IsPrefix(ConstructionSteps, ConstructionOrder)
    /\ pc = "constructed" => ConstructionSteps = ConstructionOrder
    /\ (raised.kind = "raise" /\ raised.what \in DOMAIN FailingStep) =>
          /\ pc = "failed"
          /\ Last(steps) = FailingStep[raised.what]
    /\ (raised.kind = "raise"
        /\ raised.what \in {"unsupported_platform", "unsupported_browser"}) =>
          /\ service = None
          /\ driver = 0
          /\ session = "none"
          /\ remote_calls + local_calls = 0

C9_Witness ==
    /\ pc = "failed"
    /\ raised.what = "remote_driver"
    /\ service # None
    /\ Len(steps) = 6

\* C10: in a constructed factory the stored handle is the one the constructor
\* created, never None; get_webdriver returns it; every quit_webdriver, also one
\* after the session was terminated, reaches the driver's quit.
C10_HandleKeptAfterQuit ==
    pc = "constructed" =>
        /\ created >= 1
        /\ driver = created
        /\ returned \subseteq {created}
        /\ quit_calls = quit_requests
        /\ quit_calls >= exit_quits
        /\ stale_quits <= quit_calls

C10_Witness ==
    /\ pc = "constructed"
    /\ stale_quits >= 1
    /\ exit_quits >= 1
    /\ returned # {}

====
